---- MODULE Spec2Model ----
(***************************************************************************)
(* A model of speedata/goxlsx, package goxlsx (src/xlsx.go, src/types.go): *)
(* OpenFile, GetWorksheet, readWorksheet, stringToPosition and Cell.       *)
(*                                                                         *)
(* Text that the code inspects rune by rune (cell references, dimension    *)
(* references, cell values, shared strings) is a sequence of one-character *)
(* strings: "AC101" is <<"A","C","1","0","1">>, the empty string is <<>>.  *)
(* Text that the code only compares or concatenates (sheet names,          *)
(* relationship ids, targets, archive member names, error messages) is a   *)
(* TLA+ string.                                                            *)
(***************************************************************************)
EXTENDS Integers, Sequences, FiniteSets, TLC

VARIABLES
    excelpos,   \* stringToPosition: the argument
    position,   \* stringToPosition: the returned (column, row), <<>> before the call
    pkg,        \* the archive at the path OpenFile is called with
    opened,     \* TRUE once OpenFile has returned a *Spreadsheet to the caller
    xlsx,       \* the Spreadsheet object
    heap,       \* every Worksheet object allocated so far; a pointer is an index
    calls,      \* GetWorksheet calls so far: <<[number, ws]>>, ws = 0 for nil
    decoded,    \* the worksheet numbers readWorksheet has been invoked for, in order
    sheetData,  \* the bytes of the worksheet part readWorksheet is called with
    ret,        \* what the last OpenFile / GetWorksheet / readWorksheet call did
    cellRet     \* what the last Cell call returned

vars == << excelpos, position, pkg, opened, xlsx, heap, calls, decoded, sheetData, ret, cellRet >>

-----------------------------------------------------------------------------
(* Bounds of the model.                                                    *)

MaxRefLen == 5      \* longest reference string given to stringToPosition
MaxSheets == 2      \* most sheet elements in a workbook part
MaxCalls == 2       \* most GetWorksheet calls on one Spreadsheet
MaxCoord == 2       \* Cell is asked for coordinates in -1 .. MaxCoord
MaxRows == 2        \* most row elements in a worksheet part
MaxCells == 2       \* most c elements in a worksheet part

-----------------------------------------------------------------------------
(* Runes.                                                                  *)

Letters ==
    << "A", "B", "C", "D", "E", "F", "G", "H", "I", "J", "K", "L", "M",
       "N", "O", "P", "Q", "R", "S", "T", "U", "V", "W", "X", "Y", "Z" >>

Digits == << "0", "1", "2", "3", "4", "5", "6", "7", "8", "9" >>

\* v >= 'A' && v <= 'Z'
IsUpper(v) == \E i \in 1..Len(Letters) : Letters[i] = v

\* v >= '0' && v <= '9'
IsDigit(v) == \E i \in 1..Len(Digits) : Digits[i] = v

\* v - 'A'
UpperOffset(v) == (CHOOSE i \in 1..Len(Letters) : Letters[i] = v) - 1

\* v - '0'
DigitOffset(v) == (CHOOSE i \in 1..Len(Digits) : Digits[i] = v) - 1

\* All sequences over S of length at most n.
SeqsUpTo(S, n) == UNION { [1..k -> S] : k \in 0..n }

-----------------------------------------------------------------------------
(* stringToPosition (src/xlsx.go:147-159).  The loop visits every rune;    *)
(* a letter feeds the column accumulator, a digit the row accumulator, any *)
(* other rune is skipped.  The accumulators are runes (int32); the bounds  *)
(* keep them far below 2^31.                                               *)

RECURSIVE stringToPositionLoop(_, _, _, _)
stringToPositionLoop(s, i, columnnumber, rownumber) ==
    IF i > Len(s) THEN << columnnumber, rownumber >>
    ELSE LET v == s[i]
             c == IF IsUpper(v) THEN columnnumber * 26 + UpperOffset(v) + 1
                                ELSE columnnumber
             r == IF IsDigit(v) THEN rownumber * 10 + DigitOffset(v)
                                ELSE rownumber
         IN stringToPositionLoop(s, i + 1, c, r)

\* stringToPosition with a fault: a zero-based digit for each letter (plain
\* base 26).
stringToPositionBase26(s) ==
    LET RECURSIVE loop(_, _, _)
        loop(i, c, r) ==
            IF i > Len(s) THEN << c, r >>
            ELSE loop(i + 1,
                      IF IsUpper(s[i]) THEN c * 26 + UpperOffset(s[i]) ELSE c,
                      IF IsDigit(s[i]) THEN r * 10 + DigitOffset(s[i]) ELSE r)
    IN loop(1, 0, 0)

stringToPosition(s) == stringToPositionLoop(s, 1, 0, 0)

-----------------------------------------------------------------------------
(* Library functions the decoder calls.                                    *)

Range(f) == { f[x] : x \in DOMAIN f }

\* m[k] = v on a Go map: the key is added or its entry replaced.
MapPut(m, k, v) == [ x \in DOMAIN m \cup {k} |-> IF x = k THEN v ELSE m[x] ]

EmptyMap == << >>

\* strings.Split(s, sep) for a one-rune separator: the pieces between the
\* separators, one piece (s itself) when s holds none.
RECURSIVE Split(_, _)
Split(s, sep) ==
    IF \A i \in 1..Len(s) : s[i] # sep THEN << s >>
    ELSE LET i == CHOOSE j \in 1..Len(s) :
                      s[j] = sep /\ \A k \in 1..(j - 1) : s[k] # sep
         IN << SubSeq(s, 1, i - 1) >> \o Split(SubSeq(s, i + 1, Len(s)), sep)

\* strconv.Atoi: an optional sign and then one or more decimal digits.
AtoiDigits(s) == IF s # << >> /\ s[1] \in {"+", "-"} THEN Tail(s) ELSE s

AtoiOk(s) ==
    /\ AtoiDigits(s) # << >>
    /\ \A i \in 1..Len(AtoiDigits(s)) : IsDigit(AtoiDigits(s)[i])

RECURSIVE DecimalLoop(_, _, _)
DecimalLoop(s, i, n) ==
    IF i > Len(s) THEN n ELSE DecimalLoop(s, i + 1, n * 10 + DigitOffset(s[i]))

AtoiValue(s) ==
    IF s[1] = "-" THEN 0 - DecimalLoop(AtoiDigits(s), 1, 0)
    ELSE DecimalLoop(AtoiDigits(s), 1, 0)

-----------------------------------------------------------------------------
(* Archive members.  A member is what encoding/xml makes of its bytes: a   *)
(* record carrying the root element ("kind") and the fields the struct     *)
(* tags of src/types.go pick out.  Malformed is a member whose bytes are   *)
(* not well-formed XML (or whose integer attributes do not parse); Absent  *)
(* is what uncompressedFiles[name] yields for a name not in the map (nil). *)

Absent == [kind |-> "absent"]
Malformed == [kind |-> "malformed"]

\* uncompressedFiles[name]
FileData(files, name) == IF name \in DOMAIN files THEN files[name] ELSE Absent

\* The error of xml.Unmarshal(data, v) for a v whose XMLName is `kind`;
\* "" is nil.
UnmarshalError(data, kind) ==
    IF data.kind = "absent" THEN "EOF"
    ELSE IF data.kind = "malformed" THEN "XML syntax error"
    ELSE IF data.kind # kind THEN "expected element type <" \o kind \o ">"
    ELSE ""

-----------------------------------------------------------------------------
(* Worksheet objects and Cell (src/xlsx.go:16-38, 161-172).                *)

\* Results of a function returning (pointer, error): val is << >> for nil
\* and << w >> for a pointer to w; err is "" for nil; panic is the message
\* of a run-time panic raised inside the call ("" when it returned).
Returned(w) == [val |-> << w >>, err |-> "", panic |-> ""]
Failed(e) == [val |-> << >>, err |-> e, panic |-> ""]
Panicked(m) == [val |-> << >>, err |-> "", panic |-> m]

\* Cell with a fault: the arguments taken in (row, column) order.
CellRowFirst(ws, column, row) ==
    IF column \notin DOMAIN ws.rows THEN << >>
    ELSE IF row \notin DOMAIN ws.rows[column].Cells THEN << >>
    ELSE ws.rows[column].Cells[row].Value

Cell(ws, column, row) ==
    IF row \notin DOMAIN ws.rows THEN << >>
    ELSE IF column \notin DOMAIN ws.rows[row].Cells THEN << >>
    ELSE ws.rows[row].Cells[column].Value

-----------------------------------------------------------------------------
(* readWorksheet (src/xlsx.go:174-223).                                    *)

\* Lines 197-203: the column of a cell from the letters of its reference.
RECURSIVE cellnumberLoop(_, _, _)
cellnumberLoop(r, i, cellnumber) ==
    IF i > Len(r) THEN cellnumber
    ELSE cellnumberLoop(r, i + 1,
            IF IsUpper(r[i]) THEN cellnumber * 26 + UpperOffset(r[i]) + 1
            ELSE cellnumber)

\* Lines 204-218 for one c element: the cell stored, or the error returned,
\* or the panic of indexing sharedStrings out of range.
readCell(sharedStrings, thiscol) ==
    IF thiscol.T = "s" THEN
        IF ~AtoiOk(thiscol.V)
        THEN [cell |-> << >>, err |-> "strconv.Atoi: invalid syntax", panic |-> ""]
        ELSE LET v == AtoiValue(thiscol.V)
             IN IF v < 0 \/ v >= Len(sharedStrings)
                THEN [cell |-> << >>, err |-> "",
                      panic |-> "index out of range"]
                ELSE [cell |-> << [Type |-> "s", Value |-> sharedStrings[v + 1]] >>,
                      err |-> "", panic |-> ""]
    ELSE IF thiscol.T = ""
    THEN [cell |-> << [Type |-> "v", Value |-> thiscol.V] >>, err |-> "", panic |-> ""]
    ELSE [cell |-> << [Type |-> "", Value |-> << >>] >>, err |-> "", panic |-> ""]

\* Lines 196-220: the cells of one row, in document order, stopping at the
\* first cell that fails.
RECURSIVE readCols(_, _, _, _)
readCols(sharedStrings, cols, col, cells) ==
    IF col > Len(cols) THEN [Cells |-> cells, err |-> "", panic |-> ""]
    ELSE LET c == readCell(sharedStrings, cols[col])
         IN IF c.err # "" \/ c.panic # ""
            THEN [Cells |-> cells, err |-> c.err, panic |-> c.panic]
            ELSE readCols(sharedStrings, cols, col + 1,
                          MapPut(cells, cellnumberLoop(cols[col].R, 1, 0), c.cell[1]))

\* Lines 188-221: the rows, in document order; a later row element with the
\* number of an earlier one replaces it.
RECURSIVE readRows(_, _, _, _)
readRows(sharedStrings, Row, xrow, rows) ==
    IF xrow > Len(Row) THEN [rows |-> rows, err |-> "", panic |-> ""]
    ELSE LET thisrow == Row[xrow]
             r == readCols(sharedStrings, thisrow.Cols, 1, EmptyMap)
         IN IF r.err # "" \/ r.panic # ""
            THEN [rows |-> rows, err |-> r.err, panic |-> r.panic]
            ELSE readRows(sharedStrings, Row, xrow + 1,
                          MapPut(rows, thisrow.Rownumber,
                                 [Num |-> thisrow.Rownumber, Cells |-> r.Cells]))

readWorksheet(s, data) ==
    IF UnmarshalError(data, "worksheet") # ""
    THEN Failed(UnmarshalError(data, "worksheet"))
    ELSE LET tmp == Split(data.Dimension.Ref, ":")
         IN IF Len(tmp) < 2
            THEN Panicked("index out of range")     \* tmp[1]
            ELSE LET min == stringToPosition(tmp[1])
                     max == stringToPosition(tmp[2])
                     r == readRows(s.sharedStrings, data.Row, 1, EmptyMap)
                 IN IF r.panic # "" THEN Panicked(r.panic)
                    ELSE IF r.err # "" THEN Failed(r.err)
                    ELSE Returned([Name |-> "", filename |-> "",
                                   MinColumn |-> min[1], MinRow |-> min[2],
                                   MaxColumn |-> max[1], MaxRow |-> max[2],
                                   rows |-> r.rows])

-----------------------------------------------------------------------------
(* OpenFile and what it calls (src/xlsx.go:55-145).                        *)

NoSpreadsheet ==
    [uncompressedFiles |-> EmptyMap, relationships |-> EmptyMap,
     worksheets |-> << >>, sharedStrings |-> << >>]

\* readRelationships, lines 134-145: a later Relationship element with the
\* Id of an earlier one replaces it.
RECURSIVE readRelationshipsLoop(_, _, _)
readRelationshipsLoop(Relationship, i, m) ==
    IF i > Len(Relationship) THEN m
    ELSE readRelationshipsLoop(Relationship, i + 1,
            MapPut(m, Relationship[i].Id,
                   [Type |-> Relationship[i].Type, Target |-> Relationship[i].Target]))

readRelationships(data) ==
    IF UnmarshalError(data, "Relationships") # ""
    THEN Failed(UnmarshalError(data, "Relationships"))
    ELSE Returned(readRelationshipsLoop(data.Relationship, 1, EmptyMap))

\* readWorkbook, lines 55-73: one descriptor per sheet element, in order.
readWorkbook(data) ==
    IF UnmarshalError(data, "workbook") # ""
    THEN Failed(UnmarshalError(data, "workbook"))
    ELSE Returned([ i \in 1..Len(data.Sheets) |->
                      [Name |-> data.Sheets[i].Name,
                       id |-> data.Sheets[i].SheetID,
                       rid |-> data.Sheets[i].Rid] ])

\* readStrings, lines 75-83: the error of Unmarshal is dropped (for a part
\* that is absent the sst stays zero); the pool has uniqueCount entries, read
\* from the first uniqueCount si elements.
readStrings(data) ==
    LET sst == IF UnmarshalError(data, "sst") # ""
               THEN [UniqueCount |-> 0, Si |-> << >>]
               ELSE data
    IN IF sst.UniqueCount < 0 THEN Panicked("makeslice: len out of range")
       ELSE IF sst.UniqueCount > Len(sst.Si) THEN Panicked("index out of range")
       ELSE Returned([ i \in 1..sst.UniqueCount |-> sst.Si[i].T ])

\* OpenFile, lines 86-132.  p.readable is whether zip.OpenReader, every
\* f.Open and every Read succeed with the recorded sizes.
openFile(p) ==
    IF ~p.readable THEN Failed("zip: not a valid zip file")
    ELSE LET rels == readRelationships(FileData(p.files, "xl/_rels/workbook.xml.rels"))
             wb == readWorkbook(FileData(p.files, "xl/workbook.xml"))
             strs == readStrings(FileData(p.files, "xl/sharedStrings.xml"))
         IN IF rels.err # "" THEN Failed(rels.err)
            ELSE IF wb.err # "" THEN Failed(wb.err)
            ELSE IF strs.panic # "" THEN Panicked(strs.panic)
            ELSE Returned([uncompressedFiles |-> p.files,
                           relationships |-> rels.val[1],
                           worksheets |-> wb.val[1],
                           sharedStrings |-> strs.val[1]])

\* NumWorksheets, lines 50-53.
NumWorksheets(s) == Len(s.worksheets)

-----------------------------------------------------------------------------
(* GetWorksheet (src/xlsx.go:225-239).                                     *)

\* The range check with a fault: the lower bound is not checked.
InRangeNoLowerBound(s, number) == ~(number >= Len(s.worksheets))

\* Line 227, negated: the index passes the range check.
InRange(s, number) == ~(number >= Len(s.worksheets) \/ number < 0)

\* The member name with a fault: built from the sheet id, not from the
\* relationship.
worksheetFilenameFromId(s, number) ==
    "xl/worksheets/sheet" \o s.worksheets[number + 1].id \o ".xml"

\* Lines 230-231: relationships[rid] of an id that is no key is the zero
\* relationship, whose Target is "".
worksheetFilename(s, number) ==
    LET rid == s.worksheets[number + 1].rid
    IN "xl/" \o (IF rid \in DOMAIN s.relationships
                 THEN s.relationships[rid].Target ELSE "")

\* The whole call.  s.worksheets[number] on an index outside the slice is a
\* run-time panic; ws.filename = filename (line 233) runs before err is
\* looked at and is a nil dereference when readWorksheet returned nil.
getWorksheet(s, number) ==
    IF ~InRange(s, number) THEN Failed("index out of range")
    ELSE IF number + 1 \notin DOMAIN s.worksheets
    THEN Panicked("index out of range")
    ELSE LET filename == worksheetFilename(s, number)
             r == readWorksheet(s, FileData(s.uncompressedFiles, filename))
         IN IF r.panic # "" THEN Panicked(r.panic)
            ELSE IF r.val = << >> THEN Panicked("nil pointer dereference")
            ELSE Returned([r.val[1] EXCEPT !.filename = filename,
                                           !.Name = s.worksheets[number + 1].Name])

-----------------------------------------------------------------------------
(* The archives OpenFile is given.                                         *)

NoPackage == [readable |-> FALSE, files |-> EmptyMap]

WithFile(files, name, part) ==
    IF part = Absent THEN files ELSE MapPut(files, name, part)

Package(workbook, rels, sst, sheet1, sheet2) ==
    [readable |-> TRUE,
     files |-> WithFile(WithFile(WithFile(WithFile(WithFile(EmptyMap,
                   "xl/workbook.xml", workbook),
                   "xl/_rels/workbook.xml.rels", rels),
                   "xl/sharedStrings.xml", sst),
                   "xl/worksheets/sheet1.xml", sheet1),
                   "xl/worksheets/sheet2.xml", sheet2)]

\* Shared-string parts: two items, with the uniqueCount attribute right,
\* too small and too large.
SstItems == << [T |-> << "A" >>], [T |-> << "B" >>] >>

Sst(uniqueCount) == [kind |-> "sst", UniqueCount |-> uniqueCount, Si |-> SstItems]

SstParts == { Absent } \cup { Sst(n) : n \in 1..3 }

\* Workbook parts: up to MaxSheets sheet elements.  "Moved" has sheet id 1
\* and the relationship of the second worksheet part; "Lost" names a
\* relationship no table holds.
SheetSet ==
    { [Name |-> "Sheet1", SheetID |-> "1", Rid |-> "rId1"],
      [Name |-> "Moved", SheetID |-> "1", Rid |-> "rId2"],
      [Name |-> "Lost", SheetID |-> "3", Rid |-> "rId9"] }

Workbook(sheets) == [kind |-> "workbook", Sheets |-> sheets]

WorkbookParts == { Workbook(sheets) : sheets \in SeqsUpTo(SheetSet, MaxSheets) }

\* Relationship parts: the usual table, and one that crosses the targets,
\* repeats an id and names a member the archive does not hold.
Rel(id, target) == [Id |-> id, Type |-> "worksheet", Target |-> target]

Rels(table) == [kind |-> "Relationships", Relationship |-> table]

StandardRels ==
    Rels(<< Rel("rId1", "worksheets/sheet1.xml"), Rel("rId2", "worksheets/sheet2.xml") >>)

CrossedRels ==
    Rels(<< Rel("rId1", "worksheets/sheet1.xml"), Rel("rId1", "worksheets/sheet2.xml"),
            Rel("rId2", "worksheets/sheet7.xml") >>)

\* Worksheet parts.
Worksheet(ref, Row) == [kind |-> "worksheet", Dimension |-> [Ref |-> ref], Row |-> Row]

C(r, t, v) == [R |-> r, T |-> t, V |-> v]

SheetOne ==
    Worksheet(<< "A", "1", ":", "B", "5" >>,
              << [Rownumber |-> 1,
                  Cols |-> << C(<< "A", "1" >>, "s", << "0" >>),
                              C(<< "B", "1" >>, "s", << "1" >>) >>],
                 [Rownumber |-> 2,
                  Cols |-> << C(<< "A", "2" >>, "", << "7" >>) >>] >>)

SheetTwo ==
    Worksheet(<< "B", "2", ":", "C", "3" >>,
              << [Rownumber |-> 3,
                  Cols |-> << C(<< "C", "3" >>, "", << "x" >>) >>] >>)

\* SheetTwo without its dimension element.
SheetNoDimension == Worksheet(<< >>, SheetTwo.Row)

\* A shared-string cell whose index is the length of the two-item pool.
SheetBadIndex ==
    Worksheet(<< "A", "1", ":", "A", "1" >>,
              << [Rownumber |-> 1, Cols |-> << C(<< "A", "1" >>, "s", << "2" >>) >>] >>)

\* A shared-string cell whose value is no integer.
SheetNoInteger ==
    Worksheet(<< "A", "1", ":", "A", "1" >>,
              << [Rownumber |-> 1, Cols |-> << C(<< "A", "1" >>, "s", << "x" >>) >>] >>)

StandardWorkbook ==
    Workbook(<< [Name |-> "Sheet1", SheetID |-> "1", Rid |-> "rId1"],
                [Name |-> "Sheet2", SheetID |-> "2", Rid |-> "rId2"] >>)

Packages ==
    \* the workbook and the relationships vary
    { Package(wb, rels, Sst(2), SheetOne, SheetTwo) :
        wb \in WorkbookParts, rels \in { StandardRels, CrossedRels } }
    \* the second worksheet part varies
    \cup { Package(StandardWorkbook, StandardRels, Sst(2), SheetOne, two) :
             two \in { Malformed, Absent, SheetNoDimension, SheetBadIndex,
                       SheetNoInteger } }
    \* the parts OpenFile reads vary
    \cup { Package(wb, rels, sst, SheetOne, SheetTwo) :
             wb \in { StandardWorkbook, Absent, Malformed },
             rels \in { StandardRels, Absent, Malformed },
             sst \in SstParts }
    \* an archive that cannot be read
    \cup { NoPackage }

-----------------------------------------------------------------------------
(* The access API: one caller opens the archive and asks for worksheets.   *)
(* A panic ends the program.                                               *)

NoCall == [op |-> "none", number |-> 0, ws |-> 0, err |-> "", panic |-> ""]
NoCell == [ws |-> 0, column |-> 0, row |-> 0, value |-> << >>]

Numbers == (0 - 1)..MaxSheets        \* the arguments given to GetWorksheet

Init ==
    /\ excelpos = << >>
    /\ position = << >>
    /\ pkg \in Packages
    /\ opened = FALSE
    /\ xlsx = NoSpreadsheet
    /\ heap = << >>
    /\ calls = << >>
    /\ decoded = << >>
    /\ sheetData = Absent
    /\ ret = NoCall
    /\ cellRet = NoCell

OpenFile ==
    /\ ret.op = "none"
    /\ LET r == openFile(pkg)
       IN /\ opened' = (r.val # << >>)
          /\ xlsx' = IF r.val # << >> THEN r.val[1] ELSE NoSpreadsheet
          /\ ret' = [op |-> "OpenFile", number |-> 0, ws |-> 0,
                     err |-> r.err, panic |-> r.panic]
    /\ UNCHANGED << excelpos, position, pkg, heap, calls, decoded, sheetData, cellRet >>

\* GetWorksheet with a cache: a Worksheet decoded earlier for the index is
\* returned again and the part is not decoded.
GetWorksheetCached(number) ==
    /\ opened
    /\ ret.panic = ""
    /\ Len(calls) < MaxCalls
    /\ LET r == getWorksheet(xlsx, number)
           hit == { i \in 1..Len(calls) : calls[i].number = number /\ calls[i].ws # 0 }
           ptr == IF hit # {} THEN calls[CHOOSE i \in hit : TRUE].ws
                  ELSE IF r.val # << >> THEN Len(heap) + 1 ELSE 0
       IN /\ heap' = IF hit = {} /\ r.val # << >> THEN Append(heap, r.val[1]) ELSE heap
          /\ calls' = Append(calls, [number |-> number, ws |-> ptr])
          /\ decoded' = IF hit = {} /\ InRange(xlsx, number)
                        THEN Append(decoded, number) ELSE decoded
          /\ ret' = IF hit # {}
                    THEN [op |-> "GetWorksheet", number |-> number, ws |-> ptr,
                          err |-> "", panic |-> ""]
                    ELSE [op |-> "GetWorksheet", number |-> number, ws |-> ptr,
                          err |-> r.err, panic |-> r.panic]
    /\ cellRet' = NoCell
    /\ UNCHANGED << excelpos, position, pkg, opened, xlsx, sheetData >>

GetWorksheet(number) ==
    /\ opened
    /\ ret.panic = ""
    /\ Len(calls) < MaxCalls
    /\ LET r == getWorksheet(xlsx, number)
           ptr == IF r.val # << >> THEN Len(heap) + 1 ELSE 0
       IN /\ heap' = IF r.val # << >> THEN Append(heap, r.val[1]) ELSE heap
          /\ calls' = Append(calls, [number |-> number, ws |-> ptr])
          /\ decoded' = IF InRange(xlsx, number)
                        THEN Append(decoded, number) ELSE decoded
          /\ ret' = [op |-> "GetWorksheet", number |-> number, ws |-> ptr,
                     err |-> r.err, panic |-> r.panic]
    /\ cellRet' = NoCell
    /\ UNCHANGED << excelpos, position, pkg, opened, xlsx, sheetData >>

Coords == (0 - 1)..MaxCoord          \* the arguments given to Cell

\* ws.Cell(column, row) on the Worksheet the last call returned.
CellCall(column, row) ==
    /\ ret.ws # 0
    /\ cellRet' = [ws |-> ret.ws, column |-> column, row |-> row,
                   value |-> Cell(heap[ret.ws], column, row)]
    /\ UNCHANGED << excelpos, position, pkg, opened, xlsx, heap, calls, decoded, sheetData, ret >>

Next ==
    \/ OpenFile
    \/ \E number \in Numbers : GetWorksheet(number)
    \/ \E column \in Coords, row \in Coords : CellCall(column, row)

Spec == Init /\ [][Next]_vars

-----------------------------------------------------------------------------
(* The decoder on its own: readWorksheet is given one worksheet part, and  *)
(* Cell is asked about the Worksheet it returns.                           *)

\* The parts: a dimension (absent or a range), up to MaxRows row elements
\* and up to MaxCells c elements in all, each c in one of the rows.
CellSet ==
    { C(<< "A", "1" >>, "", << "3", ".", "0" >>),
      C(<< "B", "1" >>, "", << "x" >>),
      C(<< "A", "2" >>, "s", << "0" >>),
      C(<< "B", "2" >>, "s", << "2" >>),
      C(<< "A", "3" >>, "n", << "3", ".", "0" >>),
      C(<< "B", "3" >>, "n", << "3", ".", "1", "4" >>) }

RowNumbers == 1..2

DimensionRefs == { << >>, << "B", "2", ":", "C", "5" >> }

\* The cells placed in row element i, in order.
RECURSIVE ColsOf(_, _, _)
ColsOf(placed, i, k) ==
    IF k > Len(placed) THEN << >>
    ELSE (IF placed[k][1] = i THEN << placed[k][2] >> ELSE << >>)
         \o ColsOf(placed, i, k + 1)

RowLists ==
    { [ i \in 1..Len(nums) |-> [Rownumber |-> nums[i], Cols |-> ColsOf(placed, i, 1)] ] :
        nums \in SeqsUpTo(RowNumbers, MaxRows),
        placed \in SeqsUpTo((1..MaxRows) \X CellSet, MaxCells) }

WorksheetParts == { Worksheet(ref, Row) : ref \in DimensionRefs, Row \in RowLists }

Pools == { << >>, << << "A" >>, << "B" >> >> }

InitDecode ==
    /\ excelpos = << >>
    /\ position = << >>
    /\ pkg = NoPackage
    /\ opened = TRUE
    /\ xlsx \in { [NoSpreadsheet EXCEPT !.sharedStrings = pool] : pool \in Pools }
    /\ heap = << >>
    /\ calls = << >>
    /\ decoded = << >>
    /\ sheetData \in WorksheetParts \cup { Malformed, Absent }
    /\ ret = NoCall
    /\ cellRet = NoCell

ReadWorksheet ==
    /\ ret.op = "none"
    /\ LET r == readWorksheet(xlsx, sheetData)
       IN /\ heap' = IF r.val # << >> THEN << r.val[1] >> ELSE << >>
          /\ ret' = [op |-> "readWorksheet", number |-> 0,
                     ws |-> IF r.val # << >> THEN 1 ELSE 0,
                     err |-> r.err, panic |-> r.panic]
    /\ UNCHANGED << excelpos, position, pkg, opened, xlsx, calls, decoded, sheetData, cellRet >>

NextDecode ==
    \/ ReadWorksheet
    \/ \E column \in Coords, row \in Coords : CellCall(column, row)

SpecDecode == InitDecode /\ [][NextDecode]_vars

-----------------------------------------------------------------------------
(* stringToPosition on its own: every string over RefRunes of length at    *)
(* most MaxRefLen is decoded once.                                         *)

RefRunes == { "A", "C", "Z", "0", "1", "9" }

InitPos ==
    /\ excelpos \in SeqsUpTo(RefRunes, MaxRefLen)
    /\ position = << >>
    /\ pkg = NoPackage
    /\ opened = FALSE
    /\ xlsx = NoSpreadsheet
    /\ heap = << >>
    /\ calls = << >>
    /\ decoded = << >>
    /\ sheetData = Absent
    /\ ret = NoCall
    /\ cellRet = NoCell

StringToPosition ==
    /\ position = << >>
    /\ position' = stringToPosition(excelpos)
    /\ UNCHANGED << pkg, opened, xlsx, heap, calls, decoded, sheetData, ret, cellRet, excelpos >>

NextPos == StringToPosition

SpecPos == InitPos /\ [][NextPos]_vars

-----------------------------------------------------------------------------
(* Claim C1.                                                               *)

\* A non-empty run of uppercase letters followed by a non-empty run of digits.
LetterRun(s) == Cardinality({ i \in 1..Len(s) : IsUpper(s[i]) })

WellFormedRef(s) ==
    /\ LetterRun(s) \in 1..(Len(s) - 1)
    /\ \A i \in 1..LetterRun(s) : IsUpper(s[i])
    /\ \A i \in (LetterRun(s) + 1)..Len(s) : IsDigit(s[i])

\* The bijective base-26 value of a letter run, place by place.
RECURSIVE LetterSum(_, _)
LetterSum(s, i) ==
    IF i > Len(s) THEN 0
    ELSE (UpperOffset(s[i]) + 1) * 26 ^ (Len(s) - i) + LetterSum(s, i + 1)

\* The decimal value of a digit run, place by place.
RECURSIVE DigitSum(_, _)
DigitSum(s, i) ==
    IF i > Len(s) THEN 0
    ELSE DigitOffset(s[i]) * 10 ^ (Len(s) - i) + DigitSum(s, i + 1)

\* C1: for every reference made of a letter run followed by a digit run,
\* stringToPosition returns the bijective base-26 value of the letters
\* (A = 1 ... Z = 26, "AA" = 27) as the column and the decimal value of the
\* digits as the row; "AC101" gives column 29, row 101.
C1_StringToPosition ==
    /\ (position # << >> /\ WellFormedRef(excelpos)) =>
          position = << LetterSum(SubSeq(excelpos, 1, LetterRun(excelpos)), 1),
                        DigitSum(SubSeq(excelpos, LetterRun(excelpos) + 1, Len(excelpos)), 1) >>
    /\ (position # << >> /\ excelpos = << "A", "C", "1", "0", "1" >>) =>
          position = << 29, 101 >>
    /\ (position # << >> /\ excelpos = << "Z", "1" >>) => position = << 26, 1 >>
    /\ (position # << >> /\ excelpos = << "A", "A", "1" >>) => position = << 27, 1 >>

C1_Witness ==
    /\ excelpos = << "A", "C", "1", "0", "1" >>
    /\ position = << 29, 101 >>

-----------------------------------------------------------------------------
(* Claims C2 and C3.                                                       *)

\* The sheet elements of the workbook part of the archive.
DeclaredSheets == FileData(pkg.files, "xl/workbook.xml").Sheets

\* number is inside [0, NumWorksheets()).
ValidIndex(number) == number >= 0 /\ number < NumWorksheets(xlsx)

Count(seq, x) == Cardinality({ i \in 1..Len(seq) : seq[i] = x })

CallsWith(number) == Cardinality({ i \in 1..Len(calls) : calls[i].number = number })

\* C2: GetWorksheet(i) with i < 0 or i >= NumWorksheets() returns the range
\* error and no Worksheet, and decodes no worksheet part; no call with i
\* inside [0, NumWorksheets()) returns the range error.
C2_RangeError ==
    /\ \A n \in Numbers : ~ValidIndex(n) => Count(decoded, n) = 0
    /\ \A i \in 1..Len(calls) : ~ValidIndex(calls[i].number) => calls[i].ws = 0
    /\ ret.op = "GetWorksheet" =>
          IF ValidIndex(ret.number)
          THEN ret.err # "index out of range"
          ELSE ret.err = "index out of range" /\ ret.ws = 0 /\ ret.panic = ""

C2_Witness ==
    /\ ret.op = "GetWorksheet"
    /\ NumWorksheets(xlsx) = 2
    /\ ret.number = 2
    /\ ret.err = "index out of range"
    /\ Len(heap) = 1
    /\ Len(decoded) = 1

-----------------------------------------------------------------------------
(* Claims C4, C6 and C10: the decoder and Cell, against the worksheet part *)
(* readWorksheet was given.                                                *)

Max(S) == CHOOSE x \in S : \A y \in S : y <= x

\* The column a reference names: the bijective base-26 value of its letters.
RefColumn(r) == LetterSum(SelectSeq(r, IsUpper), 1)

\* The row elements of the part with number row, and the c elements of
\* row element i whose reference names column.
RowsAt(part, row) == { i \in 1..Len(part.Row) : part.Row[i].Rownumber = row }

ColsAt(part, i, column) ==
    { k \in 1..Len(part.Row[i].Cols) : RefColumn(part.Row[i].Cols[k].R) = column }

\* Whether the part holds a cell at (column, row), and that c element: the
\* last one of the last row element with the number.
HasSourceCell(part, column, row) ==
    /\ RowsAt(part, row) # {}
    /\ ColsAt(part, Max(RowsAt(part, row)), column) # {}

SourceCell(part, column, row) ==
    LET i == Max(RowsAt(part, row))
    IN part.Row[i].Cols[Max(ColsAt(part, i, column))]

\* The value the decoder keeps for a c element: the pool entry of a
\* shared-string cell, the text of a cell without a type, nothing otherwise.
StoredValue(pool, c) ==
    IF c.T = "s" THEN pool[AtoiValue(c.V) + 1]
    ELSE IF c.T = "" THEN c.V
    ELSE << >>

\* C4: Cell(column, row) never fails; for every pair of integers, zero and
\* negative and outside the dimension included, it returns the value stored
\* for the c element whose reference names that column inside the row
\* element with that number, and the empty string when the part holds no
\* such row or no such cell.
C4_CellLookup ==
    cellRet.ws # 0 =>
        cellRet.value =
            IF HasSourceCell(sheetData, cellRet.column, cellRet.row)
            THEN StoredValue(xlsx.sharedStrings,
                             SourceCell(sheetData, cellRet.column, cellRet.row))
            ELSE << >>

C4_Witness ==
    /\ cellRet.ws # 0
    /\ cellRet.column = 2
    /\ cellRet.row = 1
    /\ cellRet.value = << "x" >>
    /\ Cell(heap[cellRet.ws], 0 - 1, 0) = << >>
    /\ Cell(heap[cellRet.ws], 1, 2) = << >>

\* strings.TrimSuffix
TrimSuffix(s, suffix) ==
    IF /\ Len(s) >= Len(suffix)
       /\ SubSeq(s, Len(s) - Len(suffix) + 1, Len(s)) = suffix
    THEN SubSeq(s, 1, Len(s) - Len(suffix))
    ELSE s

\* C6: for a cell of type "n" Cell returns the cell's text with one trailing
\* ".0" removed ("3.0" gives "3", "3.14" stays "3.14"); for a cell without
\* a type it returns the text as it is.
C6_NumericTrimmed ==
    (cellRet.ws # 0 /\ HasSourceCell(sheetData, cellRet.column, cellRet.row)) =>
        LET c == SourceCell(sheetData, cellRet.column, cellRet.row)
        IN /\ c.T = "n" => cellRet.value = TrimSuffix(c.V, << ".", "0" >>)
           /\ c.T = "" => cellRet.value = c.V

\* Every shared-string cell of the part has an integer value inside the pool.
CellsDecodable(part, pool) ==
    \A i \in 1..Len(part.Row) : \A k \in 1..Len(part.Row[i].Cols) :
        LET c == part.Row[i].Cols[k]
        IN c.T = "s" => AtoiOk(c.V) /\ AtoiValue(c.V) \in 0..(Len(pool) - 1)

\* C10: decoding a well-formed part without a dimension element succeeds and
\* leaves MinRow, MinColumn, MaxRow and MaxColumn at zero, with the rows
\* decoded; with a dimension "X:Y" the bounding box is
\* (stringToPosition(X), stringToPosition(Y)).
C10_Dimension ==
    (/\ ret.op = "readWorksheet"
     /\ sheetData.kind = "worksheet"
     /\ CellsDecodable(sheetData, xlsx.sharedStrings)) =>
        /\ ret.panic = "" /\ ret.err = "" /\ ret.ws # 0
        /\ LET ws == heap[ret.ws]
               ref == sheetData.Dimension.Ref
           IN /\ DOMAIN ws.rows = { sheetData.Row[i].Rownumber : i \in 1..Len(sheetData.Row) }
              /\ IF ref = << >>
                 THEN << ws.MinColumn, ws.MinRow, ws.MaxColumn, ws.MaxRow >> = << 0, 0, 0, 0 >>
                 ELSE /\ << ws.MinColumn, ws.MinRow >> = stringToPosition(Split(ref, ":")[1])
                      /\ << ws.MaxColumn, ws.MaxRow >> = stringToPosition(Split(ref, ":")[2])

-----------------------------------------------------------------------------
(* Claims C5, C7, C8 and C9: GetWorksheet against the parts of the archive. *)

\* The Relationship elements of the relationship part of the archive.
DeclaredRels == FileData(pkg.files, "xl/_rels/workbook.xml.rels").Relationship

\* The Relationship elements whose Id is the relationship id of sheet
\* element number (from 0), and the Target of the last of them.
RelsOfSheet(number) ==
    { i \in 1..Len(DeclaredRels) : DeclaredRels[i].Id = DeclaredSheets[number + 1].Rid }

TargetOfSheet(number) == DeclaredRels[Max(RelsOfSheet(number))].Target

\* The sheet element resolves to a member of the archive.
Resolves(number) ==
    /\ RelsOfSheet(number) # {}
    /\ ("xl/" \o TargetOfSheet(number)) \in DOMAIN pkg.files

PartOfSheet(number) == pkg.files["xl/" \o TargetOfSheet(number)]

\* GetWorksheet returned a non-nil error and no Worksheet.
ReturnedError == ret.panic = "" /\ ret.err # "" /\ ret.ws = 0

\* C5: when the worksheet part holds a shared-string cell whose index k is
\* at least the length of the pool, GetWorksheet returns an error and no
\* Worksheet; it does not crash.  (Stated for the archives whose pool holds
\* every string item of the shared-strings part.)
C5_BadIndexIsAnError ==
    (/\ ret.op = "GetWorksheet"
     /\ ValidIndex(ret.number)
     /\ Len(xlsx.sharedStrings) = Len(SstItems)
     /\ Resolves(ret.number)
     /\ PartOfSheet(ret.number).kind = "worksheet"
     /\ \E i \in 1..Len(PartOfSheet(ret.number).Row) :
           \E k \in 1..Len(PartOfSheet(ret.number).Row[i].Cols) :
               LET c == PartOfSheet(ret.number).Row[i].Cols[k]
               IN c.T = "s" /\ AtoiOk(c.V) /\ AtoiValue(c.V) >= Len(xlsx.sharedStrings))
        => ReturnedError

\* C7: when decoding the worksheet part fails (malformed XML, or a
\* shared-string index that is no integer), GetWorksheet returns a non-nil
\* error and no Worksheet; it does not crash.
C7_DecodeFailureIsAnError ==
    (/\ ret.op = "GetWorksheet"
     /\ ValidIndex(ret.number)
     /\ Resolves(ret.number)
     /\ \/ PartOfSheet(ret.number).kind = "malformed"
        \/ /\ PartOfSheet(ret.number).kind = "worksheet"
           /\ \E i \in 1..Len(PartOfSheet(ret.number).Row) :
                 \E k \in 1..Len(PartOfSheet(ret.number).Row[i].Cols) :
                     LET c == PartOfSheet(ret.number).Row[i].Cols[k]
                     IN c.T = "s" /\ ~AtoiOk(c.V))
        => ReturnedError

\* C8: NumWorksheets() is the number of sheet elements of the workbook part,
\* and the Worksheet GetWorksheet(i) returns is that of the i-th sheet
\* element in document order: it has that sheet's name and is decoded from
\* the member "xl/" + Target of the relationship with the sheet's
\* relationship id, not from a name made of the sheet id.
C8_SheetOrder ==
    opened =>
        /\ NumWorksheets(xlsx) = Len(DeclaredSheets)
        /\ \A i \in 1..Len(calls) : calls[i].ws # 0 =>
              LET ws == heap[calls[i].ws]
                  n == calls[i].number
              IN /\ ws.Name = DeclaredSheets[n + 1].Name
                 /\ Resolves(n)
                 /\ ws.filename = "xl/" \o TargetOfSheet(n)
                 /\ LET d == readWorksheet(xlsx, PartOfSheet(n)).val[1]
                    IN /\ ws.rows = d.rows
                       /\ << ws.MinColumn, ws.MinRow, ws.MaxColumn, ws.MaxRow >>
                             = << d.MinColumn, d.MinRow, d.MaxColumn, d.MaxRow >>

C8_Witness ==
    /\ Len(calls) = 2
    /\ calls[2].number = 1
    /\ calls[2].ws # 0
    /\ heap[calls[2].ws].Name = "Moved"
    /\ heap[calls[2].ws].filename = "xl/worksheets/sheet2.xml"
    /\ calls[1].ws # 0
    /\ heap[calls[1].ws].Name = "Sheet1"

\* C9: when the sheet element at a valid index resolves to no member of the
\* archive (its relationship id is in no Relationship element, or the
\* target names no member), GetWorksheet returns an error and no Worksheet.
C9_UnresolvedIsAnError ==
    (/\ ret.op = "GetWorksheet"
     /\ ValidIndex(ret.number)
     /\ ~Resolves(ret.number))
        => ReturnedError

-----------------------------------------------------------------------------
(* Claim C11: references that are no letter run followed by a digit run.   *)

\* The reference has no uppercase letter, has no digit, or has a letter
\* after a digit ("101", "AC", "A1B2", "1A").
NoLetterRun(s) == \A i \in 1..Len(s) : ~IsUpper(s[i])

NoDigitRun(s) == \A i \in 1..Len(s) : ~IsDigit(s[i])

NonContiguous(s) ==
    \E i \in 1..Len(s) : \E j \in (i + 1)..Len(s) : IsDigit(s[i]) /\ IsUpper(s[j])

MalformedRef(s) ==
    /\ s # << >>
    /\ NoLetterRun(s) \/ NoDigitRun(s) \/ NonContiguous(s)

\* C11: decoding a non-empty reference that has no letter run, has no digit run or
\* has non-contiguous letter/digit segments fails: stringToPosition produces
\* no (column, row) pair for it.
C11_MalformedRefIsAnError ==
    MalformedRef(excelpos) => position = << >>

-----------------------------------------------------------------------------
(* Claim C12: the shared-string pool OpenFile builds.                      *)

\* The shared-strings part of the archive, and the texts of its string
\* items in document order (none when the part is absent).
SharedStringsPart == FileData(pkg.files, "xl/sharedStrings.xml")

ItemTexts ==
    IF SharedStringsPart.kind = "sst"
    THEN [ i \in 1..Len(SharedStringsPart.Si) |-> SharedStringsPart.Si[i].T ]
    ELSE << >>

\* The archive can be read and its relationship and workbook parts decode.
WorkbookDecodes ==
    /\ pkg.readable
    /\ FileData(pkg.files, "xl/_rels/workbook.xml.rels").kind = "Relationships"
    /\ FileData(pkg.files, "xl/workbook.xml").kind = "workbook"

\* C12: once OpenFile has run on an archive whose relationship and workbook
\* parts decode, it has succeeded and the pool holds the text of each string
\* item of the shared-strings part in document order (as many entries as
\* items), whatever the uniqueCount attribute says; when the part is absent
\* the pool is empty.
C12_PoolHoldsEveryItem ==
    (ret.op # "none" /\ WorkbookDecodes) =>
        /\ opened
        /\ xlsx.sharedStrings = ItemTexts

====
